---- MODULE Spec2Model ----
(***************************************************************************)
(* Model of server/scripts/download_dataset.py: download_dataset()         *)
(* downloads a dataset, ensures test/images exists, walks the downloaded   *)
(* tree and copies the files whose names match to three fixed names.       *)
(*                                                                         *)
(* File names are sequences of one-character strings, so that lower() and  *)
(* the substring tests of the code are computed, not assumed.  A file's    *)
(* content is a sequence of bytes.  A directory is a function from the     *)
(* names of the files it holds to their contents.                          *)
(***************************************************************************)
EXTENDS Integers, Sequences, FiniteSets, TLC

(* ------------------------------ bounds --------------------------------- *)

\* longest file name of the name specification, in parts
MaxParts == 3
\* most files in the downloaded tree
MaxFiles == 2
\* subdirectories of the downloaded root (directory 0 is the root)
MaxDirs == 1
\* invocations of the script in one behaviour
MaxRuns == 2

(* --------------------------- file names -------------------------------- *)

pXray == <<"x", "r", "a", "y">>
pXr == <<"X", "r">>
pAY == <<"A", "Y">>
pPanoramic == <<"p", "a", "n", "o", "r", "a", "m", "i", "c">>
pPANO == <<"P", "A", "N", "O">>
pIntraoral == <<"I", "n", "t", "r", "a", "O", "R", "A", "L">>
pJpg == <<".", "j", "p", "g">>
pJPEG == <<".", "J", "P", "E", "G">>
pPng == <<".", "p", "n", "g">>
pTxt == <<".", "t", "x", "t">>

Parts == {pXray, pXr, pAY, pPanoramic, pPANO, pIntraoral, pJpg, pJPEG, pPng, pTxt}

RECURSIVE NamesOf(_)
NamesOf(k) ==
  IF k = 1 THEN Parts
  ELSE LET shorter == NamesOf(k - 1)
       IN  shorter \cup {n \o p : n \in shorter, p \in Parts}

\* the file names the name specification draws from
Names == NamesOf(MaxParts)

\* the file names of the trees of the run specification
PanoXrayJpeg == pPANO \o pXr \o pAY \o pJPEG
XrayPanoramicPng == pXray \o pPanoramic \o pPng
PanoramicJpeg == pPanoramic \o pJPEG
IntraoralPng == pIntraoral \o pPng
XrayTxt == pXray \o pTxt
PanoPng == pPANO \o pPng

(* ------------------------ str.lower and `in` --------------------------- *)

UpperToLower ==
  ("A" :> "a") @@ ("E" :> "e") @@ ("G" :> "g") @@ ("I" :> "i") @@
  ("J" :> "j") @@ ("L" :> "l") @@ ("N" :> "n") @@ ("O" :> "o") @@
  ("P" :> "p") @@ ("R" :> "r") @@ ("X" :> "x") @@ ("Y" :> "y")

\* file.lower()
Lower(s) ==
  [i \in 1..Len(s) |-> IF s[i] \in DOMAIN UpperToLower THEN UpperToLower[s[i]] ELSE s[i]]

\* sub in s
Contains(s, sub) ==
  \E i \in 1..(Len(s) - Len(sub) + 1) : SubSeq(s, i, i + Len(sub) - 1) = sub

\* ['.jpg', '.jpeg', '.png']
Exts == {<<".", "j", "p", "g">>, <<".", "j", "p", "e", "g">>, <<".", "p", "n", "g">>}

\* ['xray', 'panoramic', 'intraoral']
Terms == {<<"x", "r", "a", "y">>,
          <<"p", "a", "n", "o", "r", "a", "m", "i", "c">>,
          <<"i", "n", "t", "r", "a", "o", "r", "a", "l">>}

XrayJpg == <<"x", "r", "a", "y", ".", "j", "p", "g">>
PanoramicJpg == <<"p", "a", "n", "o", "r", "a", "m", "i", "c", ".", "j", "p", "g">>
IntraoralJpg == <<"i", "n", "t", "r", "a", "o", "r", "a", "l", ".", "j", "p", "g">>

\* the three fixture slots
Slots == {XrayJpg, PanoramicJpg, IntraoralJpg}

\* a file of test/images that is none of the three slots
OtherFile == <<"R", "E", "A", "D", "M", "E">>

(* ------------------------- the loop body ------------------------------- *)

\* faulty variant: the extension is tested with endswith, not with `in`
HasExtSuffix(file_lower) ==
  \E ext \in Exts :
    /\ Len(file_lower) >= Len(ext)
    /\ SubSeq(file_lower, Len(file_lower) - Len(ext) + 1, Len(file_lower)) = ext

\* any(ext in file_lower for ext in ['.jpg', '.jpeg', '.png'])
HasExt(file_lower) == \E ext \in Exts : Contains(file_lower, ext)

\* any(term in file_lower for term in ['xray', 'panoramic', 'intraoral'])
HasTerm(file_lower) == \E term \in Terms : Contains(file_lower, term)

\* faulty variant: the keyword test is left out
MatchesExtOnly(file) == HasExt(Lower(file))

\* the two nested ifs that guard the copy
Matches(file) == HasExt(Lower(file)) /\ HasTerm(Lower(file))

\* faulty variant: panoramic is tested before xray
TargetNamePanoramicFirst(file_lower) ==
  IF Contains(file_lower, <<"p", "a", "n", "o", "r", "a", "m", "i", "c">>) THEN PanoramicJpg
  ELSE IF Contains(file_lower, <<"x", "r", "a", "y">>) THEN XrayJpg
  ELSE IntraoralJpg

\* faulty variant: `if` for `elif`, so that the else branch undoes the xray branch
TargetNameNoElif(file_lower) ==
  IF Contains(file_lower, <<"p", "a", "n", "o", "r", "a", "m", "i", "c">>) THEN PanoramicJpg
  ELSE IntraoralJpg

\* faulty variant: the copy keeps the (lowercased) name of the source
TargetNameOfSource(file_lower) == file_lower

\* the if / elif / else that sets target_name
TargetName(file_lower) ==
  IF Contains(file_lower, <<"x", "r", "a", "y">>) THEN XrayJpg
  ELSE IF Contains(file_lower, <<"p", "a", "n", "o", "r", "a", "m", "i", "c">>) THEN PanoramicJpg
  ELSE IntraoralJpg

\* faulty variant: an existing target file is not overwritten
Copy2KeepExisting(dir, target_name, data) ==
  [n \in (DOMAIN dir) \cup {target_name} |-> IF n \in DOMAIN dir THEN dir[n] ELSE data]

\* faulty variant: the target file is opened for appending
Copy2Append(dir, target_name, data) ==
  [n \in (DOMAIN dir) \cup {target_name} |->
     IF n # target_name THEN dir[n]
     ELSE IF n \in DOMAIN dir THEN dir[n] \o data ELSE data]

\* shutil.copy2(source_path, target_path) returning normally: the target
\* file holds the source's bytes, whether or not it existed before
Copy2(dir, target_name, data) ==
  [n \in (DOMAIN dir) \cup {target_name} |-> IF n = target_name THEN data ELSE dir[n]]

\* the proper prefixes of a content: what a write that stops early leaves
Truncated(data) == {SubSeq(data, 1, k) : k \in 0..(Len(data) - 1)}

\* shutil.copy2 raising: the target directory is as before (the source or
\* the target could not be opened), or the target was opened for writing and
\* holds a truncated copy (the write failed), or it holds the whole content
\* (copying the metadata failed)
Copy2Raises(dir, target_name, data) ==
  {dir} \cup {Copy2(dir, target_name, d) : d \in Truncated(data) \cup {data}}

(* --------------------------- the file trees ---------------------------- *)

\* content of a file test/images holds before the first run
OldData == <<0>>

Dirs == 0..MaxDirs

\* the files the download may materialize.  In the root: two files for the
\* xray slot, of different content, one for each other slot, and two that
\* fail the filter.  In each subdirectory: a file for the xray slot, named
\* as one of the root and of another content
SourceFiles ==
  { [dir |-> 0, name |-> PanoXrayJpeg, data |-> <<1>>],
    [dir |-> 0, name |-> XrayPanoramicPng, data |-> <<2>>],
    [dir |-> 0, name |-> PanoramicJpeg, data |-> <<1>>],
    [dir |-> 0, name |-> IntraoralPng, data |-> <<2>>],
    [dir |-> 0, name |-> XrayTxt, data |-> <<1>>],
    [dir |-> 0, name |-> PanoPng, data |-> <<2>>] }
  \cup {[dir |-> d, name |-> PanoXrayJpeg, data |-> <<2>>] : d \in Dirs \ {0}}

SamePath(f, g) == f.dir = g.dir /\ f.name = g.name

RECURSIVE TreesOf(_)
TreesOf(k) ==
  IF k = 0 THEN {{}}
  ELSE LET smaller == TreesOf(k - 1)
       IN  smaller \cup
           UNION {{t \cup {f} : f \in {g \in SourceFiles : \A h \in t : ~SamePath(g, h)}} :
                  t \in smaller}

\* the trees the download may materialize: at most MaxFiles files, no two
\* at the same path
Trees == TreesOf(MaxFiles)

\* the orders in which a directory listing may yield the members of S
Perms(S) ==
  {s \in [1..Cardinality(S) -> S] : \A i, j \in 1..Cardinality(S) : i # j => s[i] # s[j]}

FilesIn(t, d) == {f \in t : f.dir = d}

SubDirs(t) == {f.dir : f \in t} \ {0}

\* what test/images may hold before the first run: nothing, or an old file
\* at each of the three names and at one other name
OldDirs == {[n \in S |-> OldData] : S \in {{}, Slots \cup {OtherFile}}}

(* ------------------------------- state --------------------------------- *)

VARIABLES
  pc,         \* "start", "mkdir", "walk", "done" or "error"
  run,        \* number of the current invocation
  tree,       \* the files of the dataset, as the download materializes them
  path,       \* TRUE once kagglehub.dataset_download has returned
  dirExists,  \* whether test/images exists
  target,     \* test/images: file name -> content
  walkDirs,   \* os.walk: the directories still to scan, in order
  files,      \* the files of the directory being iterated, still to visit
  order,      \* history: the files this run has enumerated, in order
  copies,     \* history: the copies this run has attempted
  errAt,      \* history: the step that raised ("none" if none)
  pre,        \* history: test/images at the start of this run
  prev        \* history: what the previous run left and enumerated, if it completed

vars ==
  <<pc, run, tree, path, dirExists, target, walkDirs, files, order, copies, errAt, pre, prev>>

NoPrev == [done |-> FALSE, target |-> <<>>, order |-> <<>>]

InitRun ==
  /\ pc = "start"
  /\ run = 1
  /\ path = FALSE
  /\ walkDirs = <<>>
  /\ files = <<>>
  /\ order = <<>>
  /\ copies = <<>>
  /\ errAt = "none"
  /\ pre = [dirExists |-> dirExists, target |-> target]
  /\ prev = NoPrev

\* any tree of at most MaxFiles files, test/images absent, empty or full
Init ==
  /\ tree \in Trees
  /\ dirExists \in BOOLEAN
  /\ target \in (IF dirExists THEN OldDirs ELSE {<<>>})
  /\ InitRun

\* a tree of one file with any name of Names, test/images absent or empty
InitNames ==
  /\ tree \in {{[dir |-> 0, name |-> n, data |-> <<1>>]} : n \in Names}
  /\ dirExists \in BOOLEAN
  /\ target = <<>>
  /\ InitRun

(* ------------------------------ actions -------------------------------- *)

\* path = kagglehub.dataset_download(...) returns
DownloadOk ==
  /\ pc = "start"
  /\ path' = TRUE
  /\ pc' = "mkdir"
  /\ UNCHANGED <<run, tree, dirExists, target, walkDirs, files, order, copies, errAt, pre, prev>>

\* faulty variant: the directory is created before the download is attempted
DownloadRaisesAfterMakeDirs ==
  /\ pc = "start"
  /\ dirExists' = TRUE
  /\ pc' = "error"
  /\ errAt' = "download"
  /\ UNCHANGED <<run, tree, path, target, walkDirs, files, order, copies, pre, prev>>

\* kagglehub.dataset_download(...) raises: nothing catches it
DownloadRaises ==
  /\ pc = "start"
  /\ pc' = "error"
  /\ errAt' = "download"
  /\ UNCHANGED <<run, tree, path, dirExists, target, walkDirs, files, order, copies, pre, prev>>

\* faulty variant: the walk starts without the directory having been created
MakeDirsSkipped ==
  /\ pc = "mkdir"
  /\ walkDirs' = <<0>>
  /\ pc' = "walk"
  /\ UNCHANGED <<run, tree, path, dirExists, target, files, order, copies, errAt, pre, prev>>

\* os.makedirs(test_dir, exist_ok=True) returns; os.walk(path) starts at the root
MakeDirsOk ==
  /\ pc = "mkdir"
  /\ dirExists' = TRUE
  /\ walkDirs' = <<0>>
  /\ pc' = "walk"
  /\ UNCHANGED <<run, tree, path, target, files, order, copies, errAt, pre, prev>>

\* os.makedirs raises; with exist_ok=True an existing directory is no error
MakeDirsRaises ==
  /\ pc = "mkdir"
  /\ ~dirExists
  /\ pc' = "error"
  /\ errAt' = "mkdir"
  /\ UNCHANGED <<run, tree, path, dirExists, target, walkDirs, files, order, copies, pre, prev>>

\* os.walk lists the next directory: its files in the order of the listing;
\* the subdirectories, also in the order of the listing, are walked after it
ScanDir ==
  /\ pc = "walk"
  /\ files = <<>>
  /\ walkDirs # <<>>
  /\ files' \in Perms(FilesIn(tree, Head(walkDirs)))
  /\ IF Head(walkDirs) = 0
       THEN walkDirs' \in Perms(SubDirs(tree))
       ELSE walkDirs' = Tail(walkDirs)
  /\ UNCHANGED <<pc, run, tree, path, dirExists, target, order, copies, errAt, pre, prev>>

\* one iteration of `for file in files` whose name fails one of the two ifs
SkipFile ==
  /\ pc = "walk"
  /\ files # <<>>
  /\ ~Matches(Head(files).name)
  /\ files' = Tail(files)
  /\ order' = Append(order, Head(files))
  /\ UNCHANGED <<pc, run, tree, path, dirExists, target, walkDirs, copies, errAt, pre, prev>>

\* one iteration whose name passes both ifs and whose copy succeeds
CopyFile ==
  /\ pc = "walk"
  /\ files # <<>>
  /\ Matches(Head(files).name)
  /\ dirExists
  /\ LET file == Head(files)
         target_name == TargetName(Lower(file.name))
     IN  /\ target' = Copy2(target, target_name, file.data)
         /\ copies' = Append(copies, [src |-> file, target_name |-> target_name, ok |-> TRUE])
         /\ order' = Append(order, file)
  /\ files' = Tail(files)
  /\ UNCHANGED <<pc, run, tree, path, dirExists, walkDirs, errAt, pre, prev>>

\* faulty variant: a copy that raises removes the fixture files
CopyRaisesCleansUp ==
  /\ pc = "walk"
  /\ files # <<>>
  /\ Matches(Head(files).name)
  /\ LET file == Head(files)
         target_name == TargetName(Lower(file.name))
     IN  /\ target' = [n \in (DOMAIN target) \ Slots |-> target[n]]
         /\ copies' = Append(copies, [src |-> file, target_name |-> target_name, ok |-> FALSE])
         /\ order' = Append(order, file)
  /\ files' = Tail(files)
  /\ pc' = "error"
  /\ errAt' = "copy"
  /\ UNCHANGED <<run, tree, path, dirExists, walkDirs, pre, prev>>

\* one iteration whose name passes both ifs and whose copy raises
CopyRaises ==
  /\ pc = "walk"
  /\ files # <<>>
  /\ Matches(Head(files).name)
  /\ LET file == Head(files)
         target_name == TargetName(Lower(file.name))
     IN  /\ target' \in (IF dirExists THEN Copy2Raises(target, target_name, file.data)
                                      ELSE {target})
         /\ copies' = Append(copies, [src |-> file, target_name |-> target_name, ok |-> FALSE])
         /\ order' = Append(order, file)
  /\ files' = Tail(files)
  /\ pc' = "error"
  /\ errAt' = "copy"
  /\ UNCHANGED <<run, tree, path, dirExists, walkDirs, pre, prev>>

\* os.walk is exhausted: download_dataset returns
WalkDone ==
  /\ pc = "walk"
  /\ files = <<>>
  /\ walkDirs = <<>>
  /\ pc' = "done"
  /\ UNCHANGED <<run, tree, path, dirExists, target, walkDirs, files, order, copies, errAt, pre, prev>>

\* the script is invoked again, on what the last invocation left on disk
NextRun ==
  /\ pc \in {"done", "error"}
  /\ run < MaxRuns
  /\ run' = run + 1
  /\ pc' = "start"
  /\ path' = FALSE
  /\ walkDirs' = <<>>
  /\ files' = <<>>
  /\ order' = <<>>
  /\ copies' = <<>>
  /\ errAt' = "none"
  /\ pre' = [dirExists |-> dirExists, target |-> target]
  /\ prev' = (IF pc = "done" THEN [done |-> TRUE, target |-> target, order |-> order] ELSE NoPrev)
  /\ UNCHANGED <<tree, dirExists, target>>

Next ==
  \/ DownloadOk
  \/ DownloadRaises
  \/ MakeDirsOk
  \/ MakeDirsRaises
  \/ ScanDir
  \/ SkipFile
  \/ CopyFile
  \/ CopyRaises
  \/ WalkDone
  \/ NextRun

\* runs over small trees
Spec == Init /\ [][Next]_vars

\* one invocation
NextOnce ==
  \/ DownloadOk
  \/ DownloadRaises
  \/ MakeDirsOk
  \/ MakeDirsRaises
  \/ ScanDir
  \/ SkipFile
  \/ CopyFile
  \/ CopyRaises
  \/ WalkDone

\* one run over a tree of one file, of any name
SpecNames == InitNames /\ [][NextOnce]_vars

(* ------------------- the filter and the slots, as specified ------------ *)

\* the lowercased name contains an extension marker and a keyword
PassesFilter(name) ==
  /\ \E e \in Exts : Contains(Lower(name), e)
  /\ \E k \in Terms : Contains(Lower(name), k)

HasXray(name) == Contains(Lower(name), pXray)

HasPanoramic(name) == Contains(Lower(name), pPanoramic)

HasIntraoral(name) == Contains(Lower(name), Lower(pIntraoral))

\* the slot of a name that passes the filter: xray > panoramic > intraoral
SlotOf(name) ==
  CASE HasXray(name) -> XrayJpg
    [] ~HasXray(name) /\ HasPanoramic(name) -> PanoramicJpg
    [] OTHER -> IntraoralJpg

\* the files of the tree the specification assigns to slot s
SourcesOf(s) == {f \in tree : PassesFilter(f.name) /\ SlotOf(f.name) = s}

\* the positions of the copies into slot s that returned normally
CopiesInto(s) == {j \in 1..Len(copies) : copies[j].target_name = s /\ copies[j].ok}

Last(S) == CHOOSE j \in S : \A k \in S : k <= j

(* ------------------------------- claims -------------------------------- *)

\* C1: every file the run copies goes to xray.jpg if its lowercased name
\* contains xray, else to panoramic.jpg if it contains panoramic, else to
\* intraoral.jpg, and then the name contains intraoral; a name with both
\* xray and panoramic goes to xray.jpg.
C1_KeywordPriority ==
  \A j \in 1..Len(copies) :
    LET name == copies[j].src.name
        t == copies[j].target_name
    IN  /\ HasXray(name) => t = XrayJpg
        /\ (~HasXray(name) /\ HasPanoramic(name)) => t = PanoramicJpg
        /\ (~HasXray(name) /\ ~HasPanoramic(name)) => (t = IntraoralJpg /\ HasIntraoral(name))
        /\ (HasXray(name) /\ HasPanoramic(name)) => t # PanoramicJpg

\* a file whose name contains both xray and panoramic has been copied
C1_Witness ==
  \E j \in 1..Len(copies) :
    /\ HasXray(copies[j].src.name)
    /\ HasPanoramic(copies[j].src.name)
    /\ copies[j].ok
    /\ XrayJpg \in DOMAIN target

\* C2: an enumerated file is copied exactly when its lowercased name contains
\* one of .jpg, .jpeg, .png and one of xray, panoramic, intraoral, anywhere
\* in the name and whatever the case.
C2_CopiedIffExtensionAndKeyword ==
  \A i \in 1..Len(order) :
    (\E j \in 1..Len(copies) : copies[j].src = order[i])
      <=> (/\ \E e \in Exts : Contains(Lower(order[i].name), e)
           /\ \E k \in Terms : Contains(Lower(order[i].name), k))

\* a file named .pngXrAY (.png not at the end, XrAY not lowercase) was copied
C2_Witness ==
  \E j \in 1..Len(copies) :
    /\ copies[j].src.name = pPng \o pXr \o pAY
    /\ copies[j].ok

\* C3: when a run has completed, every slot that a file was classified into
\* holds the content of the last such file in enumeration order, whatever
\* it held before the run.
C3_LastMatchWins ==
  pc = "done" =>
    \A s \in Slots :
      CopiesInto(s) # {} =>
        /\ s \in DOMAIN target
        /\ target[s] = copies[Last(CopiesInto(s))].src.data

\* a completed run copied two files of different content into a slot that
\* held an old file
C3_Witness ==
  /\ pc = "done"
  /\ \E s \in Slots :
       /\ s \in DOMAIN pre.target
       /\ \E i, j \in CopiesInto(s) : i < j /\ copies[i].src.data # copies[j].src.data

\* C4, as claimed: whatever order each run enumerates in, the second of two
\* completed runs leaves test/images as the first left it.
C4_IdempotentAnyOrder ==
  (pc = "done" /\ prev.done) => target = prev.target

\* C4, amended: when two consecutive completed runs enumerate the tree in
\* the same order, the second leaves test/images as the first left it.
C4_IdempotentSameOrder ==
  (pc = "done" /\ prev.done /\ order = prev.order) => target = prev.target

\* two completed runs enumerated, in the same order, two files of different
\* content that go to the same slot
C4_Witness ==
  /\ pc = "done"
  /\ prev.done
  /\ order = prev.order
  /\ \E s \in Slots :
       \E i, j \in CopiesInto(s) : i < j /\ copies[i].src.data # copies[j].src.data

\* C5: when no file of the tree passes the filter, no copy is attempted, no
\* copy raises, no file of test/images is created or changed, and the run
\* ends in error only if the download or the directory creation raised.
C5_ZeroMatch ==
  (\A f \in tree : ~PassesFilter(f.name)) =>
    /\ copies = <<>>
    /\ errAt # "copy"
    /\ target = pre.target
    /\ (pc = "error" => errAt \in {"download", "mkdir"})

\* a run over a tree of files none of which passes the filter has completed,
\* in a directory that held files before
C5_Witness ==
  /\ pc = "done"
  /\ tree # {}
  /\ \A f \in tree : ~PassesFilter(f.name)
  /\ Len(order) = Cardinality(tree)
  /\ OtherFile \in DOMAIN target
  /\ XrayJpg \in DOMAIN target

\* C6: the download has returned before the directory is ensured, the
\* directory exists before the walk and before any copy, an existing
\* directory is left as it is and raises nothing, and test/images changes
\* only while the directory exists.
C6_DirectoryBeforeCopy ==
  [][/\ pc' \in {"mkdir", "walk", "done"} => path'
     /\ pc' \in {"walk", "done"} => dirExists'
     /\ (\E j \in 1..Len(copies') : copies'[j].ok) => (dirExists' /\ path')
     /\ pre'.dirExists => errAt' # "mkdir"
     /\ pc = "mkdir" => target' = target
     /\ dirExists' # dirExists => (path /\ pc = "mkdir" /\ dirExists')
     /\ target' # target => (path /\ dirExists)]_vars

\* a run that found no directory has copied a file
C6_Witness ==
  /\ ~pre.dirExists
  /\ dirExists
  /\ \E j \in 1..Len(copies) : copies[j].ok

\* C7: when the download raises, the run is in error with the directory and
\* its files as they were when the run started, and nothing but a new
\* invocation follows.
C7_DownloadFailure ==
  [][/\ errAt' = "download" =>
          /\ pc' = "error"
          /\ ~path'
          /\ dirExists' = pre'.dirExists
          /\ target' = pre'.target
          /\ copies' = <<>>
     /\ errAt = "download" => (run' = run + 1 /\ pc' = "start")]_vars

\* the download has raised in a run that found no directory
C7_Witness ==
  /\ errAt = "download"
  /\ pc = "error"
  /\ ~pre.dirExists

\* the slot of the copy that raised, if one did
FailedSlots == {copies[j].target_name : j \in {k \in 1..Len(copies) : ~copies[k].ok}}

\* C8, as claimed: when the directory creation or a copy raises, the run is
\* in error, the copy that raised is the last one attempted, and every slot
\* an earlier copy of the run wrote holds what the last of them gave it.
C8_FailureKeepsAllWritten ==
  errAt \in {"mkdir", "copy"} =>
    /\ pc = "error"
    /\ \A j \in 1..Len(copies) : ~copies[j].ok => j = Len(copies)
    /\ \A s \in Slots :
         CopiesInto(s) # {} =>
           (s \in DOMAIN target /\ target[s] = copies[Last(CopiesInto(s))].src.data)

\* the state a raising step leaves, as amended
C8_ErrorState ==
  /\ pc = "error"
  /\ \A j \in 1..Len(copies) : ~copies[j].ok => j = Len(copies)
  /\ \A s \in Slots \ FailedSlots :
       CopiesInto(s) # {} =>
         (s \in DOMAIN target /\ target[s] = copies[Last(CopiesInto(s))].src.data)

\* C8, amended: when the directory creation or a copy raises, the run is in
\* error, the copy that raised is the last one attempted, nothing but a new
\* invocation follows, and every slot an earlier copy of the run wrote,
\* other than the slot the raising copy was writing, holds what the last of
\* them gave it.
C8_FailureKeepsOtherSlots ==
  [][/\ errAt' \in {"mkdir", "copy"} => C8_ErrorState'
     /\ errAt \in {"mkdir", "copy"} =>
          (run' = run + 1 /\ pc' = "start" /\ target' = target /\ dirExists' = dirExists)]_vars

\* a copy has raised after a copy into another slot
C8_Witness ==
  /\ errAt = "copy"
  /\ \E s \in Slots \ FailedSlots : CopiesInto(s) # {}

\* C9, as claimed: after a completed run, whatever test/images held before,
\* a fixture file is present only if the tree has a file for its slot, and
\* it holds the content of such a file.
C9_PresentOnlyIfMatched ==
  pc = "done" =>
    \A s \in Slots \cap DOMAIN target : \E f \in SourcesOf(s) : target[s] = f.data

\* C9, amended: after a completed run, a fixture file is present only if the
\* tree has a file for its slot, and then it holds the content of such a
\* file, or if it was present before the run, and then, the tree having no
\* file for its slot, it is as it was.
C9_PresentOnlyIfMatchedOrOld ==
  pc = "done" =>
    \A s \in Slots \cap DOMAIN target :
      \/ \E f \in SourcesOf(s) : target[s] = f.data
      \/ /\ SourcesOf(s) = {}
         /\ s \in DOMAIN pre.target
         /\ target[s] = pre.target[s]

\* a completed run has left one slot with a copy and another with the file
\* it held before
C9_Witness ==
  /\ pc = "done"
  /\ \E s \in Slots : CopiesInto(s) # {} /\ s \in DOMAIN pre.target
  /\ \E s \in Slots \cap DOMAIN target : SourcesOf(s) = {}

\* C10: no step changes the downloaded tree, removes a file of test/images
\* or creates one under another name than the three slots, and no step
\* changes or creates a file that is not a slot with a file for it in the tree.
C10_WriteFootprint ==
  [][/\ tree' = tree
     /\ DOMAIN target \subseteq DOMAIN target'
     /\ DOMAIN target' \subseteq (DOMAIN target) \cup Slots
     /\ \A n \in DOMAIN target' :
          (n \notin Slots \/ SourcesOf(n) = {}) =>
            (n \in DOMAIN target /\ target'[n] = target[n])]_vars

\* a copy has been made into a directory that holds another file and a
\* slot for which the tree has no file
C10_Witness ==
  /\ \E j \in 1..Len(copies) : copies[j].ok
  /\ OtherFile \in DOMAIN target
  /\ \E s \in Slots \cap DOMAIN target : SourcesOf(s) = {}

====
